---- MODULE Spec2Model ----
(***************************************************************************)
(* A model of docx2python's package/part resolution layer                  *)
(* (src/docx2python/docx_reader.py): the File class (one part of a docx),  *)
(* the DocxReader class (the package: archive handle, part list, lookup,   *)
(* save, image extraction, close) and the helper _copy_but.                *)
(*                                                                         *)
(* Python strings are sequences of one-character strings, so that          *)
(* os.path.dirname, os.path.basename, str.join and the ordering of paths   *)
(* are computed character by character as the code computes them.          *)
(* An optional value (None or a value) is a sequence of length 0 or 1.     *)
(***************************************************************************)
EXTENDS Integers, Sequences, FiniteSets, TLC

\* ------------------------------------------------------------------ bounds

\* the largest number of header parts an example archive declares
MaxHeaders == 2
\* the longest synthetic rels-file stem and target drawn for path inference
MaxLen == 2
\* the number of calls a caller makes on one package
MaxOps == 3
MaxChildren == 2

\* ----------------------------------------------------------------- strings

None == << >>
Some(v) == << v >>
IsNone(o) == o = << >>
The(o) == o[1]

\* the characters the model's names use, in code point order (Python compares
\* strings by code point)
Ascii ==
  << ".", "/", "1", "2", "3", "D", "_", "a", "b", "c", "d", "e", "f", "g", "h",
     "i", "l", "m", "n", "o", "p", "r", "s", "t", "u", "v", "w", "x" >>

Ord(c) == CHOOSE i \in 1..Len(Ascii) : Ascii[i] = c

\* Python's s < t on strings
RECURSIVE StrLess(_, _)
StrLess(s, t) ==
  IF t = << >> THEN FALSE
  ELSE IF s = << >> THEN TRUE
  ELSE IF Head(s) = Head(t) THEN StrLess(Tail(s), Tail(t))
  ELSE Ord(Head(s)) < Ord(Head(t))

\* s.rfind("/") + 1: the index of the last slash, 0 when there is none
RFindSlash(p) ==
  IF \E i \in 1..Len(p) : p[i] = "/"
  THEN CHOOSE i \in 1..Len(p) : p[i] = "/" /\ \A j \in (i+1)..Len(p) : p[j] # "/"
  ELSE 0

AllSlash(s) == \A i \in 1..Len(s) : s[i] = "/"

\* s.rstrip("/")
RECURSIVE RStripSlash(_)
RStripSlash(s) ==
  IF s # << >> /\ s[Len(s)] = "/" THEN RStripSlash(SubSeq(s, 1, Len(s) - 1)) ELSE s

\* posixpath.split(p) = <<head, tail>>
PosixSplitAt(p, i) ==
  << IF i > 0 /\ ~AllSlash(SubSeq(p, 1, i)) THEN RStripSlash(SubSeq(p, 1, i))
     ELSE SubSeq(p, 1, i),
     SubSeq(p, i + 1, Len(p)) >>
PosixSplit(p) == PosixSplitAt(p, RFindSlash(p))

\* os.path.dirname and os.path.basename
Dirname(p) == PosixSplit(p)[1]
Basename(p) == SubSeq(p, RFindSlash(p) + 1, Len(p))

\* "/".join(parts)
RECURSIVE JoinSlash(_)
JoinSlash(parts) ==
  IF parts = << >> THEN << >>
  ELSE IF Len(parts) = 1 THEN parts[1]
  ELSE parts[1] \o << "/" >> \o JoinSlash(Tail(parts))

\* [x for x in xs if x]
NonEmpty(xs) == SelectSeq(xs, LAMBDA x : x # << >>)

\* a mutant of the directory filter: the empty directory portions are kept
PathOfKeepEmpty(dir, target) ==
  JoinSlash(<< JoinSlash(<< Dirname(dir), Dirname(target) >>), Basename(target) >>)

\* File.path, lines 117-120: the storage path inferred from dir and Target
PathOf(dir, target) ==
  JoinSlash(<< JoinSlash(NonEmpty(<< Dirname(dir), Dirname(target) >>)),
               Basename(target) >>)

\* File._rels_path, lines 148-149
RelsPathJoin(split) ==
  JoinSlash(<< split[1], << "_", "r", "e", "l", "s" >>,
               split[2] \o << ".", "r", "e", "l", "s" >> >>)
RelsPathOf(path) == RelsPathJoin(PosixSplit(path))

\* ------------------------------------------------------------ name pieces

sWord == << "w", "o", "r", "d" >>
sRels == << "_", "r", "e", "l", "s" >>
sDotRels == << ".", "r", "e", "l", "s" >>
sDotXml == << ".", "x", "m", "l" >>
sDocument == << "d", "o", "c", "u", "m", "e", "n", "t" >>
sHeader == << "h", "e", "a", "d", "e", "r" >>
sImage == << "i", "m", "a", "g", "e" >>
sMedia == << "m", "e", "d", "i", "a" >>
sNumbering == << "n", "u", "m", "b", "e", "r", "i", "n", "g" >>
sOfficeDocument == << "o", "f", "f", "i", "c", "e", "D", "o", "c", "u", "m", "e", "n", "t" >>
sFooter == << "f", "o", "o", "t", "e", "r" >>
sFootnotes == << "f", "o", "o", "t", "n", "o", "t", "e", "s" >>
sEndnotes == << "e", "n", "d", "n", "o", "t", "e", "s" >>
sInvalid == << "i", "n", "v", "a", "l", "i", "d" >>
Digit(n) == << Ascii[2 + n] >>

\* the prefix of a relationship type URI; File.__init__ keeps the basename
TypeUri(tag) == << "r", "/" >> \o tag

\* line 43
CONTENT_FILE_TYPES == { sOfficeDocument, sHeader, sFooter, sFootnotes, sEndnotes }

\* ----------------------------------------------------- archive contents

\* The bytes of an archive entry: an XML document (decl: it starts with an XML
\* declaration; body: its runs), a rels file (body: its relationship records),
\* a numbering table (body: its rows) or binary data.
Bytes(kind, decl, body) == [kind |-> kind, decl |-> decl, body |-> body]
Entry(filename, data, meta) == [filename |-> filename, data |-> data, meta |-> meta]
Meta(n) == [compress |-> IF n % 2 = 0 THEN "deflated" ELSE "stored", date |-> n]
Run(fmt, text) == [fmt |-> fmt, text |-> text]
Rel(id, type, target) == [Id |-> id, Type |-> type, Target |-> target]

\* etree.fromstring: the tree of an XML document (the declaration is not part
\* of the tree)
EtreeFromString(data) == [kind |-> data.kind, body |-> data.body]
\* etree.tostring: the serialization of a tree (written without a declaration)
EtreeToString(tree) == [kind |-> tree.kind, decl |-> FALSE, body |-> tree.body]
\* etree.fromstring raises XMLSyntaxError on bytes that are not XML
IsXml(data) == data.kind # "bin"

\* merge_elems: consecutive runs of the same format become one run
RECURSIVE MergeElems(_)
MergeElems(runs) ==
  IF Len(runs) < 2 THEN runs
  ELSE IF runs[1].fmt = runs[2].fmt
       THEN MergeElems(<< Run(runs[1].fmt, runs[1].text \o runs[2].text) >>
                       \o SubSeq(runs, 3, Len(runs)))
       ELSE << runs[1] >> \o MergeElems(Tail(runs))

\* merge_elems interrupted by an error after its first merge
RECURSIVE MergeFirstPair(_)
MergeFirstPair(runs) ==
  IF Len(runs) < 2 THEN runs
  ELSE IF runs[1].fmt = runs[2].fmt
       THEN << Run(runs[1].fmt, runs[1].text \o runs[2].text) >>
            \o SubSeq(runs, 3, Len(runs))
       ELSE << runs[1] >> \o MergeFirstPair(Tail(runs))

\* the three ways a call of merge_elems can end
MergeOutcomes == { "ok", "raise_early", "raise_mid" }

\* the caller's edit of test_save_changed: elem.text.replace("bullet", "BULLET")
ReplaceBullet(runs) ==
  [i \in 1..Len(runs) |->
     Run(runs[i].fmt,
         [j \in 1..Len(runs[i].text) |->
            IF runs[i].text[j] = "bullet" THEN "BULLET" ELSE runs[i].text[j]])]

BodyDocument == << Run("b", << "bullet" >>), Run("b", << "item" >>), Run("b", << "x" >>) >>
BodyHeader == << Run("i", << "bullet" >>), Run("i", << "head" >>) >>

NameRootRels == sRels \o << "/" >> \o sDotRels
NameDocRels == sWord \o << "/" >> \o sRels \o << "/" >> \o sDocument \o sDotXml \o sDotRels
NameDocument == sWord \o << "/" >> \o sDocument \o sDotXml
NameHeader(h) == sWord \o << "/" >> \o sHeader \o Digit(h) \o sDotXml
NameNumbering == sWord \o << "/" >> \o sNumbering \o sDotXml
TargetImage == sMedia \o << "/" >> \o sImage \o Digit(1) \o << ".", "p", "n", "g" >>
NameImage == sWord \o << "/" >> \o TargetImage

\* the records of word/_rels/document.xml.rels: the headers from the last to
\* the first (a rels file lists its records in no particular order), then the
\* image
DocRelRecords(nh) ==
  [k \in 1..nh |-> Rel(<< "r", Ascii[2 + k] >>, TypeUri(sHeader),
                       sHeader \o Digit(nh + 1 - k) \o sDotXml)]
  \o << Rel(<< "r", "i" >>, TypeUri(sImage), TargetImage) >>

\* an example docx with nh headers, with or without a numbering table, with or
\* without the archive entry of its one declared image
Docx(nh, num, img) ==
  << Entry(NameRootRels,
           Bytes("rels", TRUE, << Rel(<< "r", "1" >>, TypeUri(sOfficeDocument), NameDocument) >>),
           Meta(1)),
     Entry(NameDocRels, Bytes("rels", TRUE, DocRelRecords(nh)), Meta(2)),
     Entry(NameDocument, Bytes("xml", TRUE, BodyDocument), Meta(3)) >>
  \o [h \in 1..nh |-> Entry(NameHeader(h), Bytes("xml", TRUE, BodyHeader), Meta(3 + h))]
  \o (IF num THEN << Entry(NameNumbering,
                           Bytes("num", TRUE, << << << "1" >>, << "decimal", "bullet" >> >> >>),
                           Meta(8)) >>
      ELSE << >>)
  \o (IF img THEN << Entry(NameImage, Bytes("bin", FALSE, << 1 >>), Meta(9)) >> ELSE << >>)

\* every string over {a, /} of length at most n
RECURSIVE StrUpTo(_)
StrUpTo(n) ==
  IF n = 0 THEN { << >> }
  ELSE StrUpTo(n - 1) \cup { s \o << c >> : s \in StrUpTo(n - 1), c \in { "a", "/" } }

\* an archive whose one rels file, named stem.rels, declares one header part
\* with the given target
Synthetic(stem, target) ==
  << Entry(stem \o sDotRels,
           Bytes("rels", TRUE, << Rel(<< "r", "1" >>, TypeUri(sHeader), target) >>),
           Meta(1)) >>

\* the example archives: a docx with a numbering table, an image and nh headers
\* (the tests' example.docx), and one with none of them (the tests' basic.docx)
Archives ==
  { Docx(nh, TRUE, TRUE) : nh \in 0..MaxHeaders } \cup { Docx(0, FALSE, FALSE) }

\* the archives path inference is checked on: every rels-file stem and target
\* over {a, /} up to MaxLen characters
PathArchives ==
  { Synthetic(stem, target) : stem \in StrUpTo(MaxLen),
                              target \in StrUpTo(MaxLen) \ { << >> } }

\* the bytes of the image stored under a name
ImageBytes(name) == Bytes("bin", FALSE, << name >>)
\* the record of an image, the k-th record of the rels file of a part
ImageRel(k, target) == Rel(<< "r", Ascii[2 + k] >>, TypeUri(sImage), target)
ImageRels(targets) == [k \in 1..Len(targets) |-> ImageRel(k, targets[k])]
NameHeaderRels ==
  sWord \o << "/" >> \o sRels \o << "/" >> \o sHeader \o Digit(1) \o sDotXml \o sDotRels
TargetImageN(n) == sMedia \o << "/" >> \o sImage \o Digit(n) \o << ".", "p", "n", "g" >>
\* an image of the name of the first image, in another directory
TargetImageOther == << "o", "/" >> \o sImage \o Digit(1) \o << ".", "p", "n", "g" >>

\* a docx whose document declares the images docTargets and whose header, if
\* hdrTargets is not empty, declares the images hdrTargets; of the images only
\* those of the targets in present are entries of the archive
ImageDocx(docTargets, hdrTargets, present) ==
  << Entry(NameRootRels,
           Bytes("rels", TRUE, << Rel(<< "r", "1" >>, TypeUri(sOfficeDocument), NameDocument) >>),
           Meta(1)),
     Entry(NameDocRels,
           Bytes("rels", TRUE,
                 ImageRels(docTargets)
                 \o (IF hdrTargets = << >> THEN << >>
                     ELSE << Rel(<< "r", "h" >>, TypeUri(sHeader),
                                 sHeader \o Digit(1) \o sDotXml) >>)),
           Meta(2)),
     Entry(NameDocument, Bytes("xml", TRUE, BodyDocument), Meta(3)) >>
  \o (IF hdrTargets = << >> THEN << >>
      ELSE << Entry(NameHeader(1), Bytes("xml", TRUE, BodyHeader), Meta(4)),
              Entry(NameHeaderRels, Bytes("rels", TRUE, ImageRels(hdrTargets)), Meta(5)) >>)
  \o [k \in 1..Len(present) |->
        Entry(sWord \o << "/" >> \o present[k],
              ImageBytes(sWord \o << "/" >> \o present[k]), Meta(5 + k))]

\* the archives image extraction is checked on: two images of which both, one
\* or none is an entry of the archive; two images of the same name in two
\* directories; one image declared by the document and by the header; an
\* image whose target names a directory (its basename is empty) or is '.',
\* stored or not, beside an image of the name a
ImageArchives ==
  { ImageDocx(<< TargetImageN(2), TargetImageN(1) >>, << >>, present) :
      present \in { << TargetImageN(1), TargetImageN(2) >>, << TargetImageN(1) >>,
                    << TargetImageN(2) >>, << >> } }
  \cup { ImageDocx(<< TargetImageOther, TargetImageN(1) >>, << >>,
                   << TargetImageN(1), TargetImageOther >>),
         ImageDocx(<< TargetImageN(1) >>, << TargetImageN(1) >>, << TargetImageN(1) >>) }
  \cup { ImageDocx(<< sMedia \o << "/" >>, << "a" >> >>, << >>, present) :
           present \in { << << "a" >>, sMedia \o << "/" >> >>, << << "a" >> >> } }
  \cup { ImageDocx(<< << "." >> >>, << >>, << << "." >> >>) }

\* a docx whose document declares the header targets hdrTargets, one record
\* each; word/header1.xml is an entry of the archive when hdrStored
HeaderDocx(hdrTargets, hdrStored) ==
  << Entry(NameRootRels,
           Bytes("rels", TRUE, << Rel(<< "r", "1" >>, TypeUri(sOfficeDocument), NameDocument) >>),
           Meta(1)),
     Entry(NameDocRels,
           Bytes("rels", TRUE,
                 [k \in 1..Len(hdrTargets) |->
                    Rel(<< "r", Ascii[2 + k] >>, TypeUri(sHeader), hdrTargets[k])]),
           Meta(2)),
     Entry(NameDocument, Bytes("xml", TRUE, BodyDocument), Meta(3)) >>
  \o (IF hdrStored THEN << Entry(NameHeader(1), Bytes("xml", TRUE, BodyHeader), Meta(4)) >>
      ELSE << >>)

\* the archives the names of a saved archive are checked on: one header
\* declared once or twice, stored or not
SaveArchives ==
  { HeaderDocx(targets, hdrStored) :
      targets \in { << sHeader \o Digit(1) \o sDotXml >>,
                    << sHeader \o Digit(1) \o sDotXml, sHeader \o Digit(1) \o sDotXml >> },
      hdrStored \in BOOLEAN }

\* a docx whose word/_rels/document.xml.rels holds the records recs
RelsDocx(recs) ==
  << Entry(NameRootRels,
           Bytes("rels", TRUE, << Rel(<< "r", "1" >>, TypeUri(sOfficeDocument), NameDocument) >>),
           Meta(1)),
     Entry(NameDocRels, Bytes("rels", TRUE, recs), Meta(2)),
     Entry(NameDocument, Bytes("xml", TRUE, BodyDocument), Meta(3)) >>

\* the archives the relationships of a part are checked on: the rels file of
\* the document holds two records, or none, or a record and one that has no
\* Id, or no Target
RelsArchives ==
  { RelsDocx(recs) :
      recs \in { << ImageRel(1, TargetImage), ImageRel(2, TargetImageOther) >>,
                 << >>,
                 << ImageRel(1, TargetImage),
                    [Type |-> TypeUri(sImage), Target |-> TargetImageOther] >>,
                 << [Id |-> << "r", "2" >>, Type |-> TypeUri(sImage)],
                    ImageRel(1, TargetImage) >> } }

\* ------------------------------------------------------------------ state

VARIABLES
  archive,        \* the entries of the archive at docx_filename, in infolist order
  zipf,           \* DocxReader.__zipf: "none" (None), "open" or "closed"
  files,          \* DocxReader.__files: None, or the list of File objects
  numId2NumFmts,  \* DocxReader.__numId2NumFmts: None, or the numbering table
  dest,           \* the archive at the filename given to save
  disk,           \* the image directory given to pull_image_files
  ret,            \* how the last call ended: result or exception, warnings
  io,             \* the archive operations of the last call, in order
  edits,          \* the parts whose tree the caller has edited
  nops,           \* the number of calls made so far
  checkBox,       \* the children of the checkBox element get_checkBox_entry is given
  made            \* None, or the File the caller constructed with File(reader, dict)

vars ==
  << archive, zipf, files, numId2NumFmts, dest, disk, ret, io, edits, nops, checkBox,
     made >>

\* one archive operation: handle "src" or "dst", op "open", "read", "write" or
\* "close", the entry name, and whether the handle was already closed
Io(h, op, name, closed) == [h |-> h, op |-> op, name |-> name, closed |-> closed]

\* msg is the message of the exception raised, where the model keeps it
Ret(op, arg, exc, val, warn, pre) ==
  [op |-> op, arg |-> arg, exc |-> exc, val |-> val, warn |-> warn, pre |-> pre,
   msg |-> << >>]

\* one fragment of a message: literal text, or an interpolated value
Lit(text) == [lit |-> text, val |-> << >>]
Val(v) == [lit |-> "", val |-> v]

\* the name of the archive a package was opened on
DocxFilename == << "a", ".", "d" >>

\* ------------------------------------------------------- the zip archive

\* a mutant of the handle: a closed handle is opened again on the next access
ZipfGetReopen(z) ==
  IF z = "open" THEN [z |-> z, io |-> << >>]
  ELSE [z |-> "open", io |-> << Io("src", "open", << >>, FALSE) >>]

\* DocxReader.zipf, lines 261-265: the handle is opened on first access and the
\* same handle is returned ever after, open or closed
ZipfGet(z) ==
  IF z # "none" THEN [z |-> z, io |-> << >>]
  ELSE [z |-> "open", io |-> << Io("src", "open", << >>, FALSE) >>]

HasEntry(arch, name) == \E i \in 1..Len(arch) : arch[i].filename = name
\* ZipFile.getinfo: the entry of that name (the last one, if several)
GetEntry(arch, name) ==
  arch[CHOOSE i \in 1..Len(arch) :
         arch[i].filename = name /\ \A j \in (i+1)..Len(arch) : arch[j].filename # name]

\* ZipFile.read(name): ValueError on a closed archive, KeyError when no entry
\* has that name
ZipRead(z, arch, name) ==
  [exc |-> IF z = "closed" THEN "ValueError"
           ELSE IF ~HasEntry(arch, name) THEN "KeyError" ELSE "none",
   val |-> IF z # "closed" /\ HasEntry(arch, name) THEN GetEntry(arch, name).data
           ELSE Bytes("bin", FALSE, << >>),
   io |-> << Io("src", "read", name, z = "closed") >>]

EndsWithRels(name) ==
  Len(name) >= 5 /\ SubSeq(name, Len(name) - 4, Len(name)) = sDotRels

\* collect_rels: the records of every *.rels entry, keyed by entry name
CollectRels(z, arch) ==
  LET rels == SelectSeq(arch, LAMBDA e : EndsWithRels(e.filename))
  IN  [exc |-> IF z = "closed" /\ rels # << >> THEN "ValueError" ELSE "none",
       val |-> IF z = "closed" THEN << >>
               ELSE [k \in 1..Len(rels) |-> << rels[k].filename, rels[k].data.body >>],
       io |-> IF z = "closed" /\ rels # << >>
              THEN << Io("src", "read", rels[1].filename, TRUE) >>
              ELSE [k \in 1..Len(rels) |-> Io("src", "read", rels[k].filename, FALSE)]]

\* --------------------------------------------------------------- File
\* A handler is modelled by a chain of operators, one per stage, each passing
\* what the stage computed to the next.

\* File.__init__, lines 77-80: the keys of attribute_dict that are subscripted;
\* a dict that lacks one of them raises KeyError
InitKeys == { "Id", "Type", "Target", "dir" }

\* File.__init__, lines 76-86, on a dict that has these keys; dir is its "dir"
NewFile(rec, dir) ==
  [Id |-> rec.Id, Type |-> Basename(rec.Type), Target |-> rec.Target, dir |-> dir,
   path |-> None, rels_path |-> None, rels |-> None, root_element |-> None]

\* File.path, lines 114-121
PathGet(f) == IF f.path # None THEN The(f.path) ELSE PathOf(f.dir, f.Target)
WithPath(f) == [f EXCEPT !.path = Some(PathGet(f))]

\* File._rels_path, lines 146-150
RelsPathGet(f) ==
  IF f.rels_path # None THEN The(f.rels_path) ELSE RelsPathOf(PathGet(f))
WithRelsPathOn(f1) ==
  IF f1.rels_path # None THEN f1
  ELSE [f1 EXCEPT !.rels_path = Some(RelsPathOf(The(f1.path)))]
WithRelsPath(f) == IF f.rels_path # None THEN f ELSE WithRelsPathOn(WithPath(f))

\* a dict built from key/value pairs: a later pair of the same key replaces the
\* value of the earlier one
RECURSIVE DictOf(_)
DictPut(init, kv) ==
  IF \E i \in 1..Len(init) : init[i][1] = kv[1]
  THEN [i \in 1..Len(init) |-> IF init[i][1] = kv[1] THEN kv ELSE init[i]]
  ELSE Append(init, kv)
DictOf(pairs) ==
  IF pairs = << >> THEN << >>
  ELSE DictPut(DictOf(SubSeq(pairs, 1, Len(pairs) - 1)), pairs[Len(pairs)])

\* File.rels, line 183: the mapping of the records' Id to Target
RelsOf(body) == DictOf([k \in 1..Len(body) |-> << body[k].Id, body[k].Target >>])

\* File.rels, lines 180-186, after the read rd. The try block holds the read
\* of line 181, the parse of line 182 and the comprehension of line 183, and
\* the except clause catches KeyError: that of ZipFile.read on a missing entry
\* and that of x.attrib["Id"] or x.attrib["Target"] on a record without that
\* attribute. Either way the empty mapping is cached and returned. Only the
\* records of a rels file carry these attributes: on a document or a numbering
\* table the first child raises the KeyError, and a tree without children
\* gives the empty mapping. The ValueError of a closed archive and the
\* XMLSyntaxError of etree.fromstring propagate and nothing is cached.
RelsDone(zg, f1, rd) ==
  IF rd.exc = "ValueError"
  THEN [exc |-> "ValueError", val |-> << >>, z |-> zg.z, f |-> f1, io |-> zg.io \o rd.io]
  ELSE IF rd.exc = "none" /\ ~IsXml(rd.val)
  THEN [exc |-> "XMLSyntaxError", val |-> << >>, z |-> zg.z, f |-> f1,
        io |-> zg.io \o rd.io]
  ELSE LET val == IF rd.exc = "KeyError" THEN << >>
                  ELSE IF rd.val.kind # "rels" THEN << >>
                  ELSE IF \E k \in 1..Len(rd.val.body) :
                            ~({ "Id", "Target" } \subseteq DOMAIN rd.val.body[k])
                  THEN << >>
                  ELSE RelsOf(rd.val.body)
       IN  [exc |-> "none", val |-> val, z |-> zg.z,
            f |-> [f1 EXCEPT !.rels = Some(val)], io |-> zg.io \o rd.io]

\* File.rels, line 181: self.context.zipf, then self._rels_path, then the read
RelsRead(zg, f1, arch) == RelsDone(zg, f1, ZipRead(zg.z, arch, The(f1.rels_path)))

\* a mutant of the cache test of rels: an empty cached mapping counts as no
\* cached value
RelsGetTruthy(z, f, arch) ==
  IF f.rels # None /\ The(f.rels) # << >>
  THEN [exc |-> "none", val |-> The(f.rels), z |-> z, f |-> f, io |-> << >>]
  ELSE RelsRead(ZipfGet(z), WithRelsPath(f), arch)

\* File.rels, lines 177-186
RelsGet(z, f, arch) ==
  IF f.rels # None
  THEN [exc |-> "none", val |-> The(f.rels), z |-> z, f |-> f, io |-> << >>]
  ELSE RelsRead(ZipfGet(z), WithRelsPath(f), arch)

\* a mutant of the fallback: the copy taken before the transform is cached
\* when the transform raised
CachedRootFallback(root_, root, raised) == IF raised THEN root_ ELSE root

\* File.root_element, lines 204-211: the tree that ends up cached. The handler
\* stores the copy root_, and line 211 then stores root over it.
CachedRoot(root_, root, raised) == root

\* File.root_element, line 203: root after merge_elems(self, root) ended as
\* outcome says
Merged(parsed, outcome) ==
  IF outcome = "raise_early" THEN parsed
  ELSE IF outcome = "ok" THEN [parsed EXCEPT !.body = MergeElems(parsed.body)]
  ELSE [parsed EXCEPT !.body = MergeFirstPair(parsed.body)]

\* File.root_element, lines 205-209
MergeWarning(docx, path) ==
  << Lit("Attempt to merge consecutive elements in "), Val(docx), Lit(" "), Val(path),
     Lit(" resulted in "), Lit("ex"), Lit(". Moving on.") >>

\* File.root_element, lines 200-212, on the parsed tree
RootElementCache(zg, f1, rd, parsed, outcome, docx) ==
  LET content == f1.Type \in CONTENT_FILE_TYPES
      raised == content /\ outcome # "ok"
      cached == CachedRoot(parsed, IF content THEN Merged(parsed, outcome) ELSE parsed,
                           raised)
  IN  [exc |-> "none", val |-> cached, z |-> zg.z,
       f |-> [f1 EXCEPT !.root_element = Some(cached)],
       io |-> zg.io \o rd.io,
       warn |-> IF raised THEN << MergeWarning(docx, The(f1.path)) >> ELSE << >>]

\* File.root_element, line 199, after the read rd
RootElementParse(zg, f1, rd, outcome, docx) ==
  IF rd.exc # "none"
  THEN [exc |-> rd.exc, val |-> << >>, z |-> zg.z, f |-> f1,
        io |-> zg.io \o rd.io, warn |-> << >>]
  ELSE IF ~IsXml(rd.val)
  THEN [exc |-> "XMLSyntaxError", val |-> << >>, z |-> zg.z, f |-> f1,
        io |-> zg.io \o rd.io, warn |-> << >>]
  ELSE RootElementCache(zg, f1, rd, EtreeFromString(rd.val), outcome, docx)

\* File.root_element, line 199: self.context.zipf, then self.path, then the read
RootElementRead(zg, f1, arch, outcome, docx) ==
  RootElementParse(zg, f1, ZipRead(zg.z, arch, The(f1.path)), outcome, docx)

\* File.root_element, lines 196-212; outcome is how merge_elems ends
RootElementGet(z, f, arch, outcome, docx) ==
  IF f.root_element # None
  THEN [exc |-> "none", val |-> The(f.root_element), z |-> z, f |-> f,
        io |-> << >>, warn |-> << >>]
  ELSE RootElementRead(ZipfGet(z), WithPath(f), arch, outcome, docx)

\* get_text: the texts of the runs of a tree
GetText(root) == [k \in 1..Len(root.body) |-> root.body[k].text]

\* File.content, line 217, once get_text has asked for the root element: the
\* call of get_text is the first event of the access
ContentFrom(re) ==
  [exc |-> re.exc,
   val |-> IF re.exc = "none" THEN << GetText(re.val) >> ELSE << >>,
   z |-> re.z, f |-> re.f,
   io |-> << Io("get_text", "call", << >>, FALSE) >> \o re.io,
   warn |-> re.warn]

\* File.content, lines 214-217: get_text(self) on every access
ContentGet(z, f, arch, outcome, docx) ==
  ContentFrom(RootElementGet(z, f, arch, outcome, docx))

\* a tree of the caller's, handed to get_content as root
GivenRoot == [kind |-> "xml", body |-> << Run("q", << "given" >>) >>]

\* File.get_content, lines 219-228: get_text(self, root). Without a root
\* get_text asks the part for its root element, as content does; with a root
\* it extracts the text of that tree and asks the part for nothing.
GetContentGet(z, f, arch, root, outcome, docx) ==
  IF root = None THEN ContentGet(z, f, arch, outcome, docx)
  ELSE [exc |-> "none", val |-> << GetText(The(root)) >>, z |-> z, f |-> f,
        io |-> << Io("get_text", "call", << >>, FALSE) >>, warn |-> << >>]

\* ---------------------------------------------------------- DocxReader

\* the concatenation of a sequence of sequences
RECURSIVE Flatten(_)
Flatten(ss) == IF ss = << >> THEN << >> ELSE Head(ss) \o Flatten(Tail(ss))

\* a mutant of the part list: a record that resolves to the path of an earlier
\* part makes no part
BuildFilesOncePerPath(rels) ==
  LET all == Flatten([k \in 1..Len(rels) |->
                        [j \in 1..Len(rels[k][2]) |->
                           NewFile(rels[k][2][j], Dirname(rels[k][1]))]])
      kept == SelectSeq([n \in 1..Len(all) |-> n],
                        LAMBDA n : \A m \in 1..(n - 1) : PathGet(all[m]) # PathGet(all[n]))
  IN  [k \in 1..Len(kept) |-> all[kept[k]]]

\* DocxReader.files, lines 275-277: one File per record of every rels file
BuildFiles(rels) ==
  Flatten([k \in 1..Len(rels) |->
             [j \in 1..Len(rels[k][2]) |-> NewFile(rels[k][2][j], Dirname(rels[k][1]))]])

\* DocxReader.files, lines 275-279, after collect_rels ended as cr: line 277
\* adds the key "dir" to every record, and File(...) raises KeyError on a
\* record without Id, Type or Target; nothing is cached then
FilesDone(zg, cr) ==
  IF cr.exc # "none"
  THEN [exc |-> cr.exc, z |-> zg.z, files |-> None, io |-> zg.io \o cr.io]
  ELSE IF \E k \in 1..Len(cr.val) :
            \E j \in 1..Len(cr.val[k][2]) :
               ~(InitKeys \subseteq DOMAIN cr.val[k][2][j] \cup { "dir" })
  THEN [exc |-> "KeyError", z |-> zg.z, files |-> None, io |-> zg.io \o cr.io]
  ELSE [exc |-> "none", z |-> zg.z, files |-> Some(BuildFiles(cr.val)),
        io |-> zg.io \o cr.io]

FilesCollect(zg, arch) == FilesDone(zg, CollectRels(zg.z, arch))

\* DocxReader.files, lines 272-279
FilesGet(z, fs, arch) ==
  IF fs # None THEN [exc |-> "none", z |-> z, files |-> fs, io |-> << >>]
  ELSE FilesCollect(ZipfGet(z), arch)

\* a mutant of the sort: the comparison is turned around
RECURSIVE InsertByPathDesc(_, _, _)
InsertByPathDesc(sorted, i, fl) ==
  IF sorted = << >> THEN << i >>
  ELSE IF StrLess(PathGet(fl[sorted[Len(sorted)]]), PathGet(fl[i]))
       THEN Append(InsertByPathDesc(SubSeq(sorted, 1, Len(sorted) - 1), i, fl),
                   sorted[Len(sorted)])
       ELSE Append(sorted, i)

\* sorted(..., key=attrgetter("path")): a stable sort of part indices by path
RECURSIVE InsertByPath(_, _, _)
InsertByPath(sorted, i, fl) ==
  IF sorted = << >> THEN << i >>
  ELSE IF StrLess(PathGet(fl[i]), PathGet(fl[sorted[Len(sorted)]]))
       THEN Append(InsertByPath(SubSeq(sorted, 1, Len(sorted) - 1), i, fl),
                   sorted[Len(sorted)])
       ELSE Append(sorted, i)

\* a mutant of the sort: the parts are returned in the order of the part list
UnsortedByPath(idx, fl) == idx

RECURSIVE SortByPath(_, _)
SortByPath(idx, fl) ==
  IF idx = << >> THEN << >>
  ELSE InsertByPath(SortByPath(SubSeq(idx, 1, Len(idx) - 1), fl), idx[Len(idx)], fl)

\* the indices of a sequence, in order
Indices(fl) == [i \in 1..Len(fl) |-> i]

\* the indices of the parts of fl whose type is in types, in order
IndicesOfType(fl, types) == SelectSeq(Indices(fl), LAMBDA i : fl[i].Type \in types)

\* the part list once the path of every part of a type in types is cached
WithPathsOfType(fl, types) ==
  [i \in 1..Len(fl) |-> IF fl[i].Type \in types THEN WithPath(fl[i]) ELSE fl[i]]

\* DocxReader.files_of_type, lines 338-340, on the part list fl: the matching
\* parts (as indices into the part list) sorted by path; the sort key caches
\* the path of every matching part
FilesOfTypeOn(fl, types) ==
  [val |-> SortByPath(IndicesOfType(fl, types), fl), files |-> WithPathsOfType(fl, types)]

\* the types argument of files_of_type, lines 333-336: None (<< >>) stands for
\* every content type
TypesOf(arg) == IF arg = None THEN CONTENT_FILE_TYPES ELSE { The(arg) }

FilesOfTypeDone(fg, ft) ==
  [exc |-> "none", val |-> ft.val, z |-> fg.z, files |-> Some(ft.files), io |-> fg.io,
   warn |-> << >>]

FilesOfTypeFrom(fg, arg) ==
  IF fg.exc # "none"
  THEN [exc |-> fg.exc, val |-> << >>, z |-> fg.z, files |-> fg.files, io |-> fg.io,
        warn |-> << >>]
  ELSE FilesOfTypeDone(fg, FilesOfTypeOn(The(fg.files), TypesOf(arg)))

\* DocxReader.files_of_type, lines 333-340, including its access of self.files
FilesOfTypeGet(z, fs, arch, arg) == FilesOfTypeFrom(FilesGet(z, fs, arch), arg)

\* DocxReader.file_of_type, lines 313-321, on the list files_of_type returned.
\* In the result, warn holds the warning emitted, if any, and msg the message
\* of the KeyError raised, if any.
FileOfTypeFrom(ft, type) ==
  [exc |-> IF ft.exc # "none" THEN ft.exc
           ELSE IF ft.val = << >> THEN "KeyError" ELSE "none",
   val |-> IF ft.exc # "none" \/ ft.val = << >> THEN << >> ELSE << ft.val[1] >>,
   z |-> ft.z, files |-> ft.files, io |-> ft.io,
   warn |-> IF ft.exc = "none" /\ Len(ft.val) > 1
            THEN << << Lit("Multiple files of type '{type_}' found. Returning first.") >> >>
            ELSE << >>,
   msg |-> IF ft.exc = "none" /\ ft.val = << >>
           THEN << Lit("There is no item of type '"), Val(type), Lit("' "),
                   Lit("in the {self.docx_filename} archive") >>
           ELSE << >>]

\* DocxReader.file_of_type, lines 312-321
FileOfTypeGet(z, fs, arch, type) ==
  FileOfTypeFrom(FilesOfTypeGet(z, fs, arch, Some(type)), type)

\* ZipFile.writestr warns when an entry of that name was already written: one
\* warning for every entry of items that follows an entry of the same name
CopyWarnings(items) ==
  Flatten([k \in 1..Len(items) |->
             IF \E j \in 1..(k-1) : items[j].filename = items[k].filename
             THEN << << Lit("Duplicate name: "), Val(items[k].filename) >> >>
             ELSE << >>])

\* a mutant of the copy: the entries are written without the source metadata
CopyItemsNoMeta(z, arch, items) ==
  IF z = "closed" /\ items # << >>
  THEN [exc |-> "ValueError", out |-> << >>, z |-> z,
        io |-> << Io("src", "read", items[1].filename, TRUE) >>, warn |-> << >>]
  ELSE [exc |-> "none",
        out |-> [k \in 1..Len(items) |->
                   [items[k] EXCEPT !.data = GetEntry(arch, items[k].filename).data,
                                    !.meta = Meta(0)]],
        z |-> "closed", io |-> << >>, warn |-> CopyWarnings(items)]

\* _copy_but, lines 411-416, on the entries of in_zip it does not exclude: out
\* is what was written to out_zip, z the state of in_zip afterwards. Line 413
\* reads by name, so an entry is written with the bytes ZipFile.read finds
\* under its name (those of the last entry of that name), under its own
\* metadata.
CopyItems(z, arch, items) ==
  IF z = "closed" /\ items # << >>
  THEN [exc |-> "ValueError", out |-> << >>, z |-> z,
        io |-> << Io("src", "read", items[1].filename, TRUE) >>, warn |-> << >>]
  ELSE [exc |-> "none",
        out |-> [k \in 1..Len(items) |->
                   [items[k] EXCEPT !.data = GetEntry(arch, items[k].filename).data]],
        z |-> "closed",
        io |-> Flatten([k \in 1..Len(items) |->
                 << Io("src", "read", items[k].filename, FALSE),
                    Io("dst", "write", items[k].filename, FALSE) >>])
               \o << Io("src", "close", << >>, z = "closed"),
                     Io("dst", "close", << >>, FALSE) >>,
        warn |-> CopyWarnings(items)]

\* _copy_but, lines 410-416
CopyBut(z, arch, exclusions) ==
  CopyItems(z, arch, SelectSeq(arch, LAMBDA e : e.filename \notin exclusions))

\* DocxReader.save, lines 363-364, first content part, after its root_element
\* ended as re: ZipFile.writestr on the closed zout raises ValueError. The
\* with statement closes zout when its block is left, also by an exception;
\* closing a closed ZipFile does nothing.
SaveWrite(fg, zg, fl1, first, cb, re) ==
  [exc |-> IF re.exc # "none" THEN re.exc ELSE "ValueError",
   z |-> re.z,
   files |-> Some([fl1 EXCEPT ![first] = re.f]),
   dest |-> [fp |-> "closed", entries |-> cb.out],
   io |-> fg.io \o << Io("dst", "open", << >>, FALSE) >> \o zg.io \o cb.io
          \o (IF re.exc # "none" THEN re.io
              ELSE << Io("dst", "write", The(fl1[first].path), TRUE) >>)
          \o << Io("dst", "close", << >>, TRUE) >>,
   warn |-> cb.warn \o (IF re.exc # "none" THEN << >> ELSE re.warn)]

\* DocxReader.save, lines 362-364, after _copy_but ended as cb
SaveCopied(fg, zg, fl1, content, cb, arch, docx) ==
  IF cb.exc # "none" \/ content = << >>
  THEN [exc |-> cb.exc, z |-> cb.z, files |-> Some(fl1),
        dest |-> [fp |-> "closed", entries |-> cb.out],
        io |-> fg.io \o << Io("dst", "open", << >>, FALSE) >> \o zg.io \o cb.io
               \o << Io("dst", "close", << >>, cb.exc = "none") >>,
        warn |-> cb.warn]
  ELSE SaveWrite(fg, zg, fl1, content[1], cb,
                 RootElementGet(cb.z, fl1[content[1]], arch, "ok", docx))

\* the set {x.path for x in content_files} of line 362
Exclusions(fl1, content) == { The(fl1[content[k]].path) : k \in 1..Len(content) }

\* DocxReader.save, lines 361-362: zout is opened, then self.zipf and the
\* paths of the content parts are evaluated, then _copy_but runs
SaveCopy(fg, zg, fl1, content, arch, docx) ==
  SaveCopied(fg, zg, fl1, content, CopyBut(zg.z, arch, Exclusions(fl1, content)),
             arch, docx)

\* DocxReader.save, line 360, after self.files ended as fg
SaveFiles(fg, arch, d0, docx) ==
  IF fg.exc # "none"
  THEN [exc |-> fg.exc, z |-> fg.z, files |-> fg.files, dest |-> d0, io |-> fg.io,
        warn |-> << >>]
  ELSE SaveCopy(fg, ZipfGet(fg.z), WithPathsOfType(The(fg.files), CONTENT_FILE_TYPES),
                IndicesOfType(The(fg.files), CONTENT_FILE_TYPES), arch, docx)

\* DocxReader.save, lines 360-364
SaveDo(z, fs, arch, d0, docx) == SaveFiles(FilesGet(z, fs, arch), arch, d0, docx)

\* the image loop of pull_image_files, lines 384-386, on an open archive
RECURSIVE ReadImages(_, _, _)
ReadImages(idx, fl, arch) ==
  IF idx = << >> THEN << >>
  ELSE IF HasEntry(arch, The(fl[idx[Len(idx)]].path))
       THEN DictPut(ReadImages(SubSeq(idx, 1, Len(idx) - 1), fl, arch),
                    << Basename(fl[idx[Len(idx)]].Target),
                       GetEntry(arch, The(fl[idx[Len(idx)]].path)).data >>)
       ELSE ReadImages(SubSeq(idx, 1, Len(idx) - 1), fl, arch)

\* a mutant of the write: the images are returned but none is written
PullWriteNowhere(ft, zg, images, reads, dk, dirGiven) ==
  [exc |-> "none", val |-> images, z |-> zg.z, files |-> ft.files, disk |-> dk,
   io |-> ft.io \o zg.io \o reads]

\* open(os.path.join(image_directory, file), "wb"), line 390: the names that
\* name a directory, '' (the directory itself), '.' and '..'; open raises
\* IsADirectoryError on them
IsDirName(name) == name \in { << >>, << "." >>, << ".", "." >> }
\* the position in images of the first name that names a directory, 0 when
\* there is none
FirstDirName(images) ==
  IF \A k \in 1..Len(images) : ~IsDirName(images[k][1]) THEN 0
  ELSE CHOOSE k \in 1..Len(images) :
         IsDirName(images[k][1]) /\ \A j \in 1..(k - 1) : ~IsDirName(images[j][1])

\* DocxReader.pull_image_files, lines 387-392, with the images read: the
\* directory is made, then the images are written in the order of the mapping;
\* the first name that names a directory ends the call with IsADirectoryError,
\* the files written before it staying where they are
PullWrite(ft, zg, images, reads, dk, dirGiven) ==
  IF dirGiven /\ FirstDirName(images) # 0
  THEN [exc |-> "IsADirectoryError", val |-> << >>, z |-> zg.z, files |-> ft.files,
        disk |-> [exists |-> TRUE,
                  files |-> DictOf(dk.files
                                   \o SubSeq(images, 1, FirstDirName(images) - 1))],
        io |-> ft.io \o zg.io \o reads]
  ELSE [exc |-> "none", val |-> images, z |-> zg.z, files |-> ft.files,
        disk |-> IF dirGiven THEN [exists |-> TRUE, files |-> DictOf(dk.files \o images)]
                 ELSE dk,
        io |-> ft.io \o zg.io \o reads]

\* a mutant of the image loop: the KeyError of a missing entry is not suppressed
PullReadNoSuppress(ft, zg, fl, arch, dk, dirGiven) ==
  IF zg.z = "closed"
  THEN [exc |-> "ValueError", val |-> << >>, z |-> zg.z, files |-> ft.files, disk |-> dk,
        io |-> ft.io \o << Io("src", "read", The(fl[ft.val[1]].path), TRUE) >>]
  ELSE IF \E k \in 1..Len(ft.val) : ~HasEntry(arch, The(fl[ft.val[k]].path))
  THEN [exc |-> "KeyError", val |-> << >>, z |-> zg.z, files |-> ft.files, disk |-> dk,
        io |-> ft.io \o zg.io]
  ELSE PullWrite(ft, zg, ReadImages(ft.val, fl, arch),
                 [k \in 1..Len(ft.val) |-> Io("src", "read", The(fl[ft.val[k]].path), FALSE)],
                 dk, dirGiven)

\* DocxReader.pull_image_files, lines 384-386, once self.zipf is evaluated
PullRead(ft, zg, fl, arch, dk, dirGiven) ==
  IF zg.z = "closed"
  THEN [exc |-> "ValueError", val |-> << >>, z |-> zg.z, files |-> ft.files, disk |-> dk,
        io |-> ft.io \o << Io("src", "read", The(fl[ft.val[1]].path), TRUE) >>]
  ELSE PullWrite(ft, zg, ReadImages(ft.val, fl, arch),
                 [k \in 1..Len(ft.val) |-> Io("src", "read", The(fl[ft.val[k]].path), FALSE)],
                 dk, dirGiven)

\* DocxReader.pull_image_files, lines 383-392, on the image parts ft
PullFrom(ft, arch, dk, dirGiven) ==
  IF ft.exc # "none"
  THEN [exc |-> ft.exc, val |-> << >>, z |-> ft.z, files |-> ft.files, disk |-> dk,
        io |-> ft.io]
  ELSE IF ft.val = << >>
  THEN PullWrite(ft, [z |-> ft.z, io |-> << >>], << >>, << >>, dk, dirGiven)
  ELSE PullRead(ft, ZipfGet(ft.z), The(ft.files), arch, dk, dirGiven)

\* DocxReader.pull_image_files, lines 383-392; dirGiven: image_directory is
\* not None
PullImageFilesDo(z, fs, arch, dk, dirGiven) ==
  PullFrom(FilesOfTypeGet(z, fs, arch, Some(sImage)), arch, dk, dirGiven)

\* collect_numFmts: the numbering table of a parsed word/numbering.xml
CollectNumFmts(root) == DictOf(root.body)

\* a mutant of numId2numFmts: the KeyError of a missing numbering entry is not
\* caught
NumFmtsDoneNoCatch(zg, rd) ==
  IF rd.exc # "none"
  THEN [exc |-> rd.exc, val |-> << >>, z |-> zg.z, cache |-> None, io |-> zg.io \o rd.io]
  ELSE IF ~IsXml(rd.val)
  THEN [exc |-> "XMLSyntaxError", val |-> << >>, z |-> zg.z, cache |-> None,
        io |-> zg.io \o rd.io]
  ELSE [exc |-> "none", val |-> CollectNumFmts(EtreeFromString(rd.val)), z |-> zg.z,
        cache |-> Some(CollectNumFmts(EtreeFromString(rd.val))), io |-> zg.io \o rd.io]

\* DocxReader.numId2numFmts, lines 296-301, after the read rd: the except
\* clause catches the KeyError of a missing entry only, so the ValueError of a
\* closed archive and the XMLSyntaxError of etree.fromstring propagate and
\* nothing is cached
NumFmtsDone(zg, rd) ==
  IF rd.exc = "ValueError"
  THEN [exc |-> "ValueError", val |-> << >>, z |-> zg.z, cache |-> None,
        io |-> zg.io \o rd.io]
  ELSE IF rd.exc = "none" /\ ~IsXml(rd.val)
  THEN [exc |-> "XMLSyntaxError", val |-> << >>, z |-> zg.z, cache |-> None,
        io |-> zg.io \o rd.io]
  ELSE LET val == IF rd.exc = "KeyError" THEN << >>
                  ELSE CollectNumFmts(EtreeFromString(rd.val))
       IN  [exc |-> "none", val |-> val, z |-> zg.z, cache |-> Some(val),
            io |-> zg.io \o rd.io]

NumFmtsRead(zg, arch) == NumFmtsDone(zg, ZipRead(zg.z, arch, NameNumbering))

\* DocxReader.numId2numFmts, lines 293-301
NumFmtsGet(z, cache, arch) ==
  IF cache # None THEN [exc |-> "none", val |-> The(cache), z |-> z, cache |-> cache,
                        io |-> << >>]
  ELSE NumFmtsRead(ZipfGet(z), arch)

\* DocxReader.close and DocxReader.__del__, lines 394-398: self.__zipf.close()
CloseDo(z) ==
  IF z = "none" THEN [exc |-> "AttributeError", z |-> z, io |-> << >>]
  ELSE [exc |-> "none", z |-> "closed", io |-> << Io("src", "close", << >>, z = "closed") >>]

\* ---------------------------------------------------------------- forms

\* a child of a checkBox element: its tag and its w:val attribute, if any
Child(tag, wval) == [tag |-> tag, wval |-> wval]
\* the children a checkBox is made of: w:sizeAuto, and w:checked and w:default
\* without w:val or with a w:val
WVals == { "", "0", "1", "true" }
Children ==
  { Child("sizeAuto", None) }
  \cup { Child(tag, wval) : tag \in { "checked", "default" },
                            wval \in { None } \cup { Some(v) : v \in WVals } }
\* the checkBox elements of up to n children
RECURSIVE CheckBoxes(_)
CheckBoxes(n) ==
  IF n = 0 THEN { << >> }
  ELSE CheckBoxes(n - 1) \cup { Append(e, c) : e \in CheckBoxes(n - 1), c \in Children }

\* the text of the unchecked box and of the crossed box
UncheckedBox == "U+2610"
CrossedBox == "U+2612"
CheckBoxFailed == "----checkbox failed----"

\* checkBox.iterfind(qn(tag)): the children of that tag, in document order
IterFind(elem, tag) == SelectSeq(elem, LAMBDA c : c.tag = tag)

\* get_wval, lines 58-61, when there is no w:checked child
WvalOfDefault(found) ==
  IF found = << >> \/ found[1].wval = None THEN None ELSE found[1].wval

\* get_wval, lines 55-57: str(checked.attrib.get(qn("w:val")) or "1")
WvalOfChecked(found, elem) ==
  IF found = << >> THEN WvalOfDefault(IterFind(elem, "default"))
  ELSE IF found[1].wval = None \/ found[1].wval = Some("") THEN Some("1")
  ELSE found[1].wval

\* get_wval, lines 54-61
GetWval(elem) == WvalOfChecked(IterFind(elem, "checked"), elem)

\* line 63: the lookup of get_wval() in the dict of the three results
EntryOfWval(wval) ==
  IF wval = Some("0") THEN [exc |-> "none", val |-> << UncheckedBox >>]
  ELSE IF wval = Some("1") THEN [exc |-> "none", val |-> << CrossedBox >>]
  ELSE IF wval = None THEN [exc |-> "none", val |-> << CheckBoxFailed >>]
  ELSE [exc |-> "KeyError", val |-> << >>]

\* get_checkBox_entry, lines 25-63
GetCheckBoxEntry(elem) == EntryOfWval(GetWval(elem))

\* -------------------------------------------------------------- actions

\* the types a caller asks for
QueryTypes == { sOfficeDocument, sHeader, sInvalid }

InitOn(archives) ==
  /\ archive \in archives
  /\ zipf = "none"
  /\ files = None
  /\ numId2NumFmts = None
  /\ dest = [fp |-> "none", entries |-> << >>]
  /\ disk = [exists |-> FALSE, files |-> << >>]
  /\ ret = Ret("init", << >>, "none", << >>, << >>, "none")
  /\ io = << >>
  /\ edits = {}
  /\ nops = 0
  /\ checkBox = << >>
  /\ made = None

Init == InitOn(Archives)

\* the package is alive and the caller has calls left
CanCall == ret.op # "__del__" /\ nops < MaxOps
\* the caller holds the parts of the package
Parts == IF files = None THEN {} ELSE 1..Len(The(files))

\* a call on the package ended as r
Returns(op, arg, r, val, warn) ==
  /\ zipf' = r.z
  /\ io' = r.io
  /\ ret' = Ret(op, arg, r.exc, val, warn, zipf)
  /\ nops' = nops + 1

\* a call on part i ended as r
PartReturns(op, i, r, val, warn) ==
  /\ files' = Some([The(files) EXCEPT ![i] = r.f])
  /\ Returns(op, << i >>, r, val, warn)

\* a call on the package that may have built the part list ended as r
ListReturns(op, arg, r) ==
  /\ files' = r.files
  /\ Returns(op, arg, r, r.val, r.warn)

\* reader.zipf
Zipf ==
  /\ CanCall
  /\ Returns("zipf", << >>, ZipfGet(zipf) @@ [exc |-> "none"], << >>, << >>)
  /\ UNCHANGED << checkBox, made, archive, files, numId2NumFmts, dest, disk, edits >>

\* reader.files
Files ==
  /\ CanCall
  /\ ListReturns("files", << >>, FilesGet(zipf, files, archive) @@ [val |-> << >>, warn |-> << >>])
  /\ UNCHANGED << checkBox, made, archive, numId2NumFmts, dest, disk, edits >>

\* file.path
Path(i) ==
  /\ CanCall
  /\ PartReturns("path", i,
                 [exc |-> "none", z |-> zipf, io |-> << >>, f |-> WithPath(The(files)[i])],
                 PathGet(The(files)[i]), << >>)
  /\ UNCHANGED << checkBox, made, archive, numId2NumFmts, dest, disk, edits >>

\* repr(file), lines 88-90: "File(" and the path and ")"; the path is computed
\* and cached as by file.path
Repr(i) ==
  /\ CanCall
  /\ PartReturns("__repr__", i,
                 [exc |-> "none", z |-> zipf, io |-> << >>, f |-> WithPath(The(files)[i])],
                 << "F", "i", "l", "e", "(" >> \o PathGet(The(files)[i]) \o << ")" >>,
                 << >>)
  /\ UNCHANGED << checkBox, made, archive, numId2NumFmts, dest, disk, edits >>

\* file._rels_path
RelsPath(i) ==
  /\ CanCall
  /\ PartReturns("_rels_path", i,
                 [exc |-> "none", z |-> zipf, io |-> << >>, f |-> WithRelsPath(The(files)[i])],
                 RelsPathGet(The(files)[i]), << >>)
  /\ UNCHANGED << checkBox, made, archive, numId2NumFmts, dest, disk, edits >>

RelsReturns(i, r) == PartReturns("rels", i, r, r.val, << >>)

\* file.rels
Rels(i) ==
  /\ CanCall
  /\ RelsReturns(i, RelsGet(zipf, The(files)[i], archive))
  /\ UNCHANGED << checkBox, made, archive, numId2NumFmts, dest, disk, edits >>

RootElementReturns(i, r) ==
  PartReturns("root_element", i, r, IF r.exc = "none" THEN << r.val >> ELSE << >>, r.warn)

\* file.root_element
RootElement(i, outcome) ==
  /\ CanCall
  /\ RootElementReturns(i, RootElementGet(zipf, The(files)[i], archive, outcome, DocxFilename))
  /\ UNCHANGED << checkBox, made, archive, numId2NumFmts, dest, disk, edits >>

ContentReturns(i, r) == PartReturns("content", i, r, r.val, r.warn)

\* file.content
Content(i, outcome) ==
  /\ CanCall
  /\ ContentReturns(i, ContentGet(zipf, The(files)[i], archive, outcome, DocxFilename))
  /\ UNCHANGED << checkBox, made, archive, numId2NumFmts, dest, disk, edits >>

\* file.get_content(root); root is None when no root is given
GetContent(i, root, outcome) ==
  /\ CanCall
  /\ PartReturns("get_content", i,
                 GetContentGet(zipf, The(files)[i], archive, root, outcome, DocxFilename),
                 GetContentGet(zipf, The(files)[i], archive, root, outcome, DocxFilename).val,
                 GetContentGet(zipf, The(files)[i], archive, root, outcome, DocxFilename).warn)
  /\ UNCHANGED << checkBox, made, archive, numId2NumFmts, dest, disk, edits >>

\* the caller edits the text of the tree root_element returned; this is no
\* call on the package
EditText(i) ==
  /\ ret.op # "__del__"
  /\ i \notin edits
  /\ The(files)[i].root_element # None
  /\ files' = Some([The(files) EXCEPT ![i].root_element[1].body = ReplaceBullet(@)])
  /\ edits' = edits \cup { i }
  /\ io' = << >>
  /\ ret' = Ret("edit", << i >>, "none", << >>, << >>, zipf)
  /\ UNCHANGED << checkBox, made, archive, zipf, numId2NumFmts, dest, disk, nops >>

NumFmtsReturns(r) ==
  /\ numId2NumFmts' = r.cache
  /\ Returns("numId2numFmts", << >>, r, r.val, << >>)

\* reader.numId2numFmts
NumId2numFmts ==
  /\ CanCall
  /\ NumFmtsReturns(NumFmtsGet(zipf, numId2NumFmts, archive))
  /\ UNCHANGED << checkBox, made, archive, files, dest, disk, edits >>

\* reader.file_of_type(type)
FileOfTypeReturns(type, r) ==
  /\ files' = r.files
  /\ zipf' = r.z
  /\ io' = r.io
  /\ ret' = [Ret("file_of_type", << type >>, r.exc, r.val, r.warn, zipf) EXCEPT !.msg = r.msg]
  /\ nops' = nops + 1

FileOfType(type) ==
  /\ CanCall
  /\ FileOfTypeReturns(type, FileOfTypeGet(zipf, files, archive, type))
  /\ UNCHANGED << checkBox, made, archive, numId2NumFmts, dest, disk, edits >>

\* reader.files_of_type(type), reader.files_of_type() when arg is None
FilesOfType(arg) ==
  /\ CanCall
  /\ ListReturns("files_of_type", arg, FilesOfTypeGet(zipf, files, archive, arg))
  /\ UNCHANGED << checkBox, made, archive, numId2NumFmts, dest, disk, edits >>

\* reader.content_files(), line 348
ContentFiles ==
  /\ CanCall
  /\ ListReturns("content_files", << >>, FilesOfTypeGet(zipf, files, archive, None))
  /\ UNCHANGED << checkBox, made, archive, numId2NumFmts, dest, disk, edits >>

SaveReturns(r) ==
  /\ files' = r.files
  /\ dest' = r.dest
  /\ Returns("save", << >>, r, << >>, r.warn)

\* reader.save(filename)
Save ==
  /\ CanCall
  /\ SaveReturns(SaveDo(zipf, files, archive, dest, DocxFilename))
  /\ UNCHANGED << checkBox, made, archive, numId2NumFmts, disk, edits >>

PullReturns(dirGiven, r) ==
  /\ files' = r.files
  /\ disk' = r.disk
  /\ Returns("pull_image_files", << dirGiven >>, r, r.val, << >>)

\* the attribute dicts a caller constructs a File from: the record of the
\* document with the directory of _rels/.rels, the record of a header with the
\* directory of the document's rels file, a dict without Id and a dict
\* without dir
PartDicts ==
  { [Id |-> << "r", "1" >>, Type |-> TypeUri(sOfficeDocument), Target |-> NameDocument,
     dir |-> sRels],
    [Id |-> << "r", "2" >>, Type |-> TypeUri(sHeader),
     Target |-> sHeader \o Digit(1) \o sDotXml, dir |-> sWord \o << "/" >> \o sRels],
    [Type |-> TypeUri(sOfficeDocument), Target |-> NameDocument, dir |-> sRels],
    [Id |-> << "r", "1" >>, Type |-> TypeUri(sOfficeDocument), Target |-> NameDocument] }

\* File(reader, attribute_dict), lines 76-86
NewPart(attrs) ==
  /\ CanCall
  /\ made = None
  /\ made' = IF InitKeys \subseteq DOMAIN attrs THEN Some(NewFile(attrs, attrs.dir))
             ELSE None
  /\ Returns("File", << >>,
             [exc |-> IF InitKeys \subseteq DOMAIN attrs THEN "none" ELSE "KeyError",
              z |-> zipf, io |-> << >>],
             << >>, << >>)
  /\ UNCHANGED << checkBox, archive, files, numId2NumFmts, dest, disk, edits >>

\* file.rels, on the File the caller constructed
PartRels ==
  /\ CanCall
  /\ made # None
  /\ made' = Some(RelsGet(zipf, The(made), archive).f)
  /\ Returns("rels", << >>, RelsGet(zipf, The(made), archive),
             RelsGet(zipf, The(made), archive).val, << >>)
  /\ UNCHANGED << checkBox, archive, files, numId2NumFmts, dest, disk, edits >>

\* reader.pull_image_files(image_directory)
PullImageFiles(dirGiven) ==
  /\ CanCall
  /\ PullReturns(dirGiven, PullImageFilesDo(zipf, files, archive, disk, dirGiven))
  /\ UNCHANGED << checkBox, made, archive, numId2NumFmts, dest, edits >>

\* reader.close()
Close ==
  /\ CanCall
  /\ Returns("close", << >>, CloseDo(zipf), << >>, << >>)
  /\ UNCHANGED << checkBox, made, archive, files, numId2NumFmts, dest, disk, edits >>

\* the destructor, lines 397-398; nothing is called on the package afterwards
Del ==
  /\ CanCall
  /\ Returns("__del__", << >>, CloseDo(zipf), << >>, << >>)
  /\ UNCHANGED << checkBox, made, archive, files, numId2NumFmts, dest, disk, edits >>

Next ==
  \/ Zipf
  \/ Files
  \/ \E i \in Parts : Path(i)
  \/ \E i \in Parts : Repr(i)
  \/ \E i \in Parts : RelsPath(i)
  \/ \E i \in Parts : Rels(i)
  \/ \E i \in Parts, outcome \in MergeOutcomes : RootElement(i, outcome)
  \/ \E i \in Parts : EditText(i)
  \/ NumId2numFmts
  \/ \E type \in QueryTypes : FileOfType(type)
  \/ \E arg \in { None } \cup { Some(t) : t \in QueryTypes } : FilesOfType(arg)
  \/ ContentFiles
  \/ Save
  \/ \E dirGiven \in BOOLEAN : PullImageFiles(dirGiven)
  \/ Close
  \/ Del

Spec == Init /\ [][Next]_vars

\* path inference alone, over every rels-file directory and target
InitPath == InitOn(PathArchives \cup { Docx(MaxHeaders, TRUE, TRUE) })

NextPath ==
  \/ Files
  \/ \E i \in Parts : Path(i)
  \/ \E i \in Parts : Repr(i)
  \/ \E i \in Parts : RelsPath(i)

SpecPath == InitPath /\ [][NextPath]_vars

\* image extraction and the part list, over the image archives
InitImages == InitOn(ImageArchives)

NextImages ==
  \/ Files
  \/ \E i \in Parts : Rels(i)
  \/ \E dirGiven \in BOOLEAN : PullImageFiles(dirGiven)
  \/ Close

SpecImages == InitImages /\ [][NextImages]_vars

\* the relationships of the parts of the package and of a part the caller
\* constructed, over the rels archives
InitRels == InitOn(RelsArchives)

NextRels ==
  \/ Files
  \/ \E i \in Parts : Rels(i)
  \/ \E attrs \in PartDicts : NewPart(attrs)
  \/ PartRels
  \/ Close

SpecRels == InitRels /\ [][NextRels]_vars

\* the decoded content of the parts, over the example archives
NextContent ==
  \/ Files
  \/ \E i \in Parts, outcome \in MergeOutcomes : RootElement(i, outcome)
  \/ \E i \in Parts, outcome \in MergeOutcomes : Content(i, outcome)
  \/ \E i \in Parts, root \in { None, Some(GivenRoot) }, outcome \in MergeOutcomes :
       GetContent(i, root, outcome)
  \/ \E i \in Parts : EditText(i)
  \/ Close

SpecContent == Init /\ [][NextContent]_vars

\* saving, over the header archives
InitSave == InitOn(SaveArchives)

NextSave ==
  \/ Files
  \/ \E i \in Parts, outcome \in MergeOutcomes : RootElement(i, outcome)
  \/ \E i \in Parts : EditText(i)
  \/ Save
  \/ Close

SpecSave == InitSave /\ [][NextSave]_vars

\* get_checkBox_entry(checkBox)
CheckBoxEntry ==
  /\ ret.op = "init"
  /\ ret' = Ret("get_checkBox_entry", << >>, GetCheckBoxEntry(checkBox).exc,
                GetCheckBoxEntry(checkBox).val, << >>, zipf)
  /\ UNCHANGED << checkBox, made, archive, zipf, files, numId2NumFmts, dest, disk, io, edits, nops >>

\* the text of a checkBox, over the checkBox elements of up to MaxChildren
\* children
InitForms ==
  /\ checkBox \in CheckBoxes(MaxChildren)
  /\ archive = << >>
  /\ zipf = "none"
  /\ files = None
  /\ numId2NumFmts = None
  /\ dest = [fp |-> "none", entries |-> << >>]
  /\ disk = [exists |-> FALSE, files |-> << >>]
  /\ ret = Ret("init", << >>, "none", << >>, << >>, "none")
  /\ io = << >>
  /\ edits = {}
  /\ nops = 0
  /\ made = None

NextForms == CheckBoxEntry

SpecForms == InitForms /\ [][NextForms]_vars

\* --------------------------------------------------------------- claims

FileAt(i) == The(files)[i]
ContentParts == { i \in Parts : FileAt(i).Type \in CONTENT_FILE_TYPES }
\* the storage path of part i, computed from its attributes
StoragePath(i) == PathOf(FileAt(i).dir, FileAt(i).Target)
ContentPaths == { StoragePath(i) : i \in ContentParts }
\* a save that began on a package whose handle had not been closed
SavedFromUsable == ret.op = "save" /\ ret.pre # "closed"

\* C1: after save on a package with at least one content part, save has ended
\* without error and the destination holds, for every content part, an entry
\* at the part's storage path whose bytes are the serialization of the part's
\* cached tree (with the caller's edits).
C1_SaveWritesContentParts ==
  (SavedFromUsable /\ ContentParts # {}) =>
    /\ ret.exc = "none"
    /\ \A i \in ContentParts :
         /\ FileAt(i).root_element # None
         /\ HasEntry(dest.entries, StoragePath(i))
         /\ GetEntry(dest.entries, StoragePath(i)).data
              = EtreeToString(The(FileAt(i).root_element))

\* C2: after save (on a package whose handle had not been closed before), the
\* entries of the destination that are not at a content part's storage path
\* are exactly the source entries that are not at a content part's storage
\* path: same order, same names, same bytes, same metadata, none dropped, none
\* twice, whatever the caller edited.
C2_SaveCopiesOtherEntries ==
  SavedFromUsable =>
    /\ dest.fp = "closed"
    /\ SelectSeq(dest.entries, LAMBDA e : e.filename \notin ContentPaths)
         = SelectSeq(archive, LAMBDA e : e.filename \notin ContentPaths)

\* a save after the caller edited a tree, which copied the other entries
C2_Witness ==
  /\ SavedFromUsable
  /\ edits # {}
  /\ Len(dest.entries) >= 3
  /\ \E k \in 1..Len(dest.entries) : dest.entries[k].data.kind = "bin"

\* C3: in a save (on a package whose handle had not been closed before) no
\* read and no write is made on an archive that is already closed.
C3_SaveNoIoOnClosed ==
  SavedFromUsable =>
    \A k \in 1..Len(io) : io[k].op \in { "read", "write" } => ~io[k].closed

\* C4: close() and the destructor never fail, in whatever state the handle is,
\* and leave no open handle.
C4_CloseNeverFails ==
  ret.op \in { "close", "__del__" } => (ret.exc = "none" /\ zipf # "open")

\* C5: when the run-merge transform raises, root_element returns without error
\* and with a warning, and the tree cached and returned is the tree as parsed,
\* before the transform.
C5_MergeFailureKeepsParsedTree ==
  (ret.op = "root_element" /\ ret.warn # << >>) =>
    LET i == ret.arg[1]
        parsed == EtreeFromString(GetEntry(archive, StoragePath(i)).data)
    IN  /\ ret.exc = "none"
        /\ ret.val = << parsed >>
        /\ FileAt(i).root_element = Some(parsed)

\* what a new package opened on the saved archive reads as the root element of
\* the part with these attributes
Reread(f) ==
  RootElementGet("none", NewFile([Id |-> f.Id, Type |-> TypeUri(f.Type), Target |-> f.Target],
                                 f.dir),
                 dest.entries, "ok", << "b", ".", "d" >>)

\* C6: after a save with no edits, every content part whose root element was
\* read (and merged) before the save reads back from the saved archive with
\* the same serialization.
C6_RoundTrip ==
  (SavedFromUsable /\ edits = {}) =>
    \A i \in ContentParts :
      (/\ FileAt(i).root_element # None
       /\ HasEntry(archive, StoragePath(i))
       /\ The(FileAt(i).root_element).body
            = MergeElems(GetEntry(archive, StoragePath(i)).data.body)) =>
        /\ Reread(FileAt(i)).exc = "none"
        /\ EtreeToString(Reread(FileAt(i)).val)
             = EtreeToString(The(FileAt(i).root_element))

\* the parts of type t
OfType(t) == { i \in Parts : FileAt(i).Type = t }
\* part i has a smallest storage path among the parts in S
SmallestPath(i, S) == \A j \in S : ~StrLess(StoragePath(j), StoragePath(i))

\* C7: file_of_type(t) returns the one part of type t without a warning when
\* there is exactly one; warns and returns a part of type t with the smallest
\* storage path when there are several (word/header1.xml for the headers);
\* fails with KeyError and returns nothing when there is none.
C7_FileOfType ==
  (ret.op = "file_of_type" /\ files # None) =>
    LET t == ret.arg[1]
        n == Cardinality(OfType(t))
    IN  /\ n = 1 => (ret.exc = "none" /\ ret.warn = << >> /\ { ret.val[1] } = OfType(t))
        /\ n > 1 => /\ ret.exc = "none"
                    /\ Len(ret.warn) = 1
                    /\ ret.val[1] \in OfType(t)
                    /\ SmallestPath(ret.val[1], OfType(t))
                    /\ t = sHeader => StoragePath(ret.val[1]) = NameHeader(1)
        /\ n = 0 => (ret.exc = "KeyError" /\ ret.val = << >> /\ ret.warn = << >>)

\* file_of_type("header") on a docx with several headers warned and returned
\* word/header1.xml
C7_Witness ==
  /\ ret.op = "file_of_type"
  /\ ret.arg = << sHeader >>
  /\ Len(ret.warn) = 1
  /\ Cardinality(OfType(sHeader)) = MaxHeaders
  /\ FileAt(ret.val[1]).path = Some(NameHeader(1))

\* the sum over the types in T of the number of parts of each type
RECURSIVE SumOfCounts(_)
SumOfCounts(T) ==
  IF T = {} THEN 0
  ELSE LET t == CHOOSE t \in T : TRUE
       IN  Cardinality(OfType(t)) + SumOfCounts(T \ { t })

IsListing == ret.op \in { "files_of_type", "content_files" } /\ ret.exc = "none"
ListedTypes == IF ret.op = "content_files" THEN CONTENT_FILE_TYPES ELSE TypesOf(ret.arg)

\* C8: files_of_type(t) returns exactly the parts of type t, each once, sorted
\* ascending by storage path; files_of_type(None) and content_files() return
\* exactly the parts of the five content types, sorted ascending by storage
\* path, as many as the per-type counts add up to; and a call repeated right
\* away returns the same list.
C8_FilesOfType ==
  /\ [](IsListing =>
         LET wanted == { i \in Parts : FileAt(i).Type \in ListedTypes }
         IN  /\ { ret.val[k] : k \in 1..Len(ret.val) } = wanted
             /\ Len(ret.val) = Cardinality(wanted)
             /\ \A k, l \in 1..Len(ret.val) :
                  k < l => ~StrLess(StoragePath(ret.val[l]), StoragePath(ret.val[k]))
             /\ ListedTypes = CONTENT_FILE_TYPES =>
                  Len(ret.val) = SumOfCounts(CONTENT_FILE_TYPES))
  /\ [][(IsListing /\ IsListing' /\ ret'.op = ret.op /\ ret'.arg = ret.arg) =>
          ret'.val = ret.val]_vars

\* files_of_type() listed the document and the headers of a docx, in an order
\* that is not the order of the part list
C8_Witness ==
  /\ ret.op = "files_of_type"
  /\ ret.arg = None
  /\ ret.exc = "none"
  /\ Len(ret.val) = MaxHeaders + 1
  /\ ret.val # SelectSeq(Indices(The(files)), LAMBDA i : i \in ContentParts)

\* the storage path as the claim words it: the directory portions of dir and
\* of target that are not empty joined with "/", then joined with the basename
\* of target with "/"
WordedPath(dir, target) ==
  LET dd == Dirname(dir)
      td == Dirname(target)
      slash == << "/" >>
      base == Basename(target)
  IN  IF dd = << >> /\ td = << >> THEN slash \o base
      ELSE IF dd = << >> THEN td \o slash \o base
      ELSE IF td = << >> THEN dd \o slash \o base
      ELSE dd \o slash \o td \o slash \o base

\* C9: the storage path of a part is that function of (dir, target); dir
\* word/_rels with target header1.xml gives word/header1.xml and dir _rels
\* with target word/document.xml gives word/document.xml; the path, once
\* computed, stays the same string; and computing it opens and reads nothing.
C9_PathInference ==
  /\ [](\A i \in Parts :
          LET f == FileAt(i)
          IN  f.path # None =>
                /\ The(f.path) = WordedPath(f.dir, f.Target)
                /\ (f.dir = sWord \o << "/" >> \o sRels /\ f.Target = sHeader \o Digit(1) \o sDotXml)
                     => The(f.path) = NameHeader(1)
                /\ (f.dir = sRels /\ f.Target = NameDocument)
                     => The(f.path) = NameDocument)
  /\ [](ret.op = "path" =>
          /\ io = << >>
          /\ zipf = ret.pre
          /\ ret.exc = "none"
          /\ Some(ret.val) = FileAt(ret.arg[1]).path)
  /\ [][\A i \in Parts :
          FileAt(i).path # None => (files' # None /\ The(files')[i].path = FileAt(i).path)]_vars

\* path was computed for the header declared with target header1.xml in
\* word/_rels, and is word/header1.xml
C9_Witness ==
  /\ ret.op = "path"
  /\ FileAt(ret.arg[1]).dir = sWord \o << "/" >> \o sRels
  /\ FileAt(ret.arg[1]).Target = sHeader \o Digit(1) \o sDotXml
  /\ ret.val = NameHeader(1)

ImageParts == { i \in Parts : FileAt(i).Type = sImage }

\* C10: when save has ended the source handle is closed; a closed handle is
\* never opened again; and on a closed handle root_element, rels and
\* numId2numFmts return the value cached before and fail when nothing was
\* cached, and pull_image_files fails when there is an image to read.
C10_SaveClosesForGood ==
  /\ [](ret.op = "save" => zipf = "closed")
  /\ [][zipf = "closed" => zipf' = "closed"]_vars
  /\ [][(zipf = "closed" /\ files # None /\ ret'.op = "root_element") =>
          LET i == ret'.arg[1]
          IN  IF FileAt(i).root_element # None
              THEN ret'.exc = "none" /\ ret'.val = FileAt(i).root_element
              ELSE ret'.exc = "ValueError" /\ The(files')[i].root_element = None]_vars
  /\ [][(zipf = "closed" /\ files # None /\ ret'.op = "rels") =>
          LET i == ret'.arg[1]
          IN  IF FileAt(i).rels # None
              THEN ret'.exc = "none" /\ Some(ret'.val) = FileAt(i).rels
              ELSE ret'.exc = "ValueError" /\ The(files')[i].rels = None]_vars
  /\ [][(zipf = "closed" /\ ret'.op = "numId2numFmts") =>
          IF numId2NumFmts # None
          THEN ret'.exc = "none" /\ Some(ret'.val) = numId2NumFmts
          ELSE ret'.exc = "ValueError" /\ numId2NumFmts' = None]_vars
  /\ [][(zipf = "closed" /\ files # None /\ ImageParts # {}
         /\ ret'.op = "pull_image_files") =>
          (ret'.exc = "ValueError" /\ ret'.val = << >> /\ disk' = disk)]_vars

\* after a save, rels of a part that had not been read before failed
C10_Witness ==
  /\ ret.op = "rels"
  /\ ret.pre = "closed"
  /\ ret.exc = "ValueError"
  /\ dest.fp = "closed"
  /\ FileAt(ret.arg[1]).rels = None

\* the image parts whose storage path names an entry of the archive
StoredImages == { i \in ImageParts : HasEntry(archive, StoragePath(i)) }
\* the keys of a mapping
Keys(m) == { m[k][1] : k \in 1..Len(m) }
\* the name pull_image_files stores the image of part i under
ImageName(i) == Basename(FileAt(i).Target)

\* the names under which no file can be written: the directory itself, '.'
\* and '..'
NoFileNames == { << >>, << "." >>, << ".", "." >> }

\* C11: pull_image_files never raises KeyError, so never because an image has
\* no archive entry: on a handle that is not closed, the only error is the
\* IsADirectoryError of a call with a directory on an image that is stored
\* under a name no file can have, and without a directory there is none. The
\* returned mapping has a key for exactly the images whose archive entry
\* exists, each value being the bytes of such an entry; called without a
\* directory it leaves the file system as it was.
C11_MissingImageOmitted ==
  /\ [](ret.op = "pull_image_files" =>
          /\ ret.exc # "KeyError"
          /\ (ret.pre # "closed" /\ ret.arg = << FALSE >>) => ret.exc = "none"
          /\ (ret.pre # "closed" /\ ret.exc # "none") =>
               /\ ret.exc = "IsADirectoryError"
               /\ ret.arg = << TRUE >>
               /\ \E i \in StoredImages : ImageName(i) \in NoFileNames
          /\ ret.exc = "none" =>
               /\ Keys(ret.val) = { ImageName(i) : i \in StoredImages }
               /\ \A k \in 1..Len(ret.val) :
                    \E i \in StoredImages :
                      /\ ImageName(i) = ret.val[k][1]
                      /\ GetEntry(archive, StoragePath(i)).data = ret.val[k][2])
  /\ [][(ret'.op = "pull_image_files" /\ ret'.arg = << FALSE >>) => disk' = disk]_vars

\* pull_image_files without a directory returned one of two declared images,
\* the other having no entry in the archive
C11_Witness ==
  /\ ret.op = "pull_image_files"
  /\ ret.arg = << FALSE >>
  /\ ret.exc = "none"
  /\ Cardinality(ImageParts) = 2
  /\ Cardinality(StoredImages) = 1
  /\ Len(ret.val) = 1
  /\ disk = [exists |-> FALSE, files |-> << >>]

\* the value a mapping holds under a key
Lookup(m, key) == m[CHOOSE k \in 1..Len(m) : m[k][1] = key][2]
\* the part the last call was made on: part i of the package, or the part the
\* caller constructed
CalledPart == IF ret.arg = << >> THEN The(made) ELSE FileAt(ret.arg[1])
\* the name of the rels entry of the part f
RelsName(f) == RelsPathOf(PathOf(f.dir, f.Target))
\* the records of the rels entry of the part f that have an Id and a Target
RelsRecords(f) ==
  SelectSeq(GetEntry(archive, RelsName(f)).data.body,
            LAMBDA r : { "Id", "Target" } \subseteq DOMAIN r)

\* C12 as claimed: rels of a part never raises on a handle that is not closed;
\* it is the empty mapping when the archive has no entry at the part's rels
\* path, and otherwise maps the Id of every record of that entry to its Target
\* and nothing else (a record without Id or Target has no pair to give).
C12_RelsOfPart ==
  ret.op = "rels" =>
    /\ ret.exc # "KeyError"
    /\ ret.pre # "closed" => ret.exc = "none"
    /\ ret.exc = "none" =>
         IF ~HasEntry(archive, RelsName(CalledPart)) THEN ret.val = << >>
         ELSE LET recs == RelsRecords(CalledPart)
              IN  /\ Keys(ret.val) = { recs[k].Id : k \in 1..Len(recs) }
                  /\ Len(ret.val) = Cardinality(Keys(ret.val))
                  /\ \A k \in 1..Len(recs) : Lookup(ret.val, recs[k].Id) = recs[k].Target

\* the numbering table of the archive: empty when it has no word/numbering.xml
NumberingOf(arch) ==
  IF ~HasEntry(arch, NameNumbering) THEN << >>
  ELSE CollectNumFmts(EtreeFromString(GetEntry(arch, NameNumbering).data))

\* C13: numId2numFmts never raises on a handle that is not closed; it is the
\* empty mapping when the archive has no word/numbering.xml and otherwise the
\* numbering table decoded from that entry; and once it has returned, every
\* later access returns the same mapping without raising.
C13_NumberingTable ==
  /\ [](ret.op = "numId2numFmts" =>
          /\ ret.exc # "KeyError"
          /\ ret.pre # "closed" => ret.exc = "none"
          /\ ret.exc = "none" =>
               /\ ret.val = NumberingOf(archive)
               /\ numId2NumFmts = Some(ret.val))
  /\ [][(numId2NumFmts # None /\ ret'.op = "numId2numFmts") =>
          (ret'.exc = "none" /\ ret'.val = The(numId2NumFmts))]_vars

\* numId2numFmts of a docx without word/numbering.xml returned the empty
\* mapping again, after the handle was closed
C13_Witness ==
  /\ ret.op = "numId2numFmts"
  /\ ret.pre = "closed"
  /\ ret.exc = "none"
  /\ ret.val = << >>
  /\ ~HasEntry(archive, NameNumbering)

\* the caller has edited the tree of the officeDocument part and of no other
OnlyDocumentEdited == edits # {} /\ \A i \in edits : FileAt(i).Type = sOfficeDocument
\* the destination holds an entry of the name and bytes of the source entry e
CopiedToDest(e) ==
  \E k \in 1..Len(dest.entries) :
    dest.entries[k].filename = e.filename /\ dest.entries[k].data = e.data
\* the source entries that are not the entry of an edited part
OtherEntries ==
  { archive[k] : k \in { l \in 1..Len(archive) :
                           archive[l].filename \notin { StoragePath(i) : i \in edits } } }

\* C14 as claimed: after a save with only the officeDocument tree edited,
\* every other entry of the source, the headers included, is in the
\* destination with the same bytes.
C14_OthersByteIdentical ==
  (SavedFromUsable /\ OnlyDocumentEdited) => \A e \in OtherEntries : CopiedToDest(e)

\* the cached values of part i stay what they are in this step; the tree of
\* the root element is the caller's to edit
PartCachesKept(i) ==
  /\ FileAt(i).path # None => The(files')[i].path = FileAt(i).path
  /\ FileAt(i).rels_path # None => The(files')[i].rels_path = FileAt(i).rels_path
  /\ FileAt(i).rels # None => The(files')[i].rels = FileAt(i).rels
  /\ (FileAt(i).root_element # None /\ ret'.op # "edit") =>
       The(files')[i].root_element = FileAt(i).root_element

\* this step is a call of the accessor op of part i that found its value cached
CachedCall(op, i) == ret'.op = op /\ ret'.arg = << i >>

\* C15: a value that is cached (the path, the rels path, the rels, the root
\* element of a part, the numbering table, the part list) is never computed
\* again: it stays in the cache, and every later call of its accessor returns
\* it without error, without a warning of the transform and without opening
\* or reading the archive, also when it is empty and when the handle is
\* closed.
C15_MemoizeOnce ==
  /\ [][files # None =>
          /\ files' # None
          /\ Len(The(files')) = Len(The(files))
          /\ \A i \in Parts : PartCachesKept(i)]_vars
  /\ [][numId2NumFmts # None => numId2NumFmts' = numId2NumFmts]_vars
  /\ [][(files # None /\ ret'.op = "files") =>
          (ret'.exc = "none" /\ io' = << >> /\ files' = files)]_vars
  /\ [][(numId2NumFmts # None /\ ret'.op = "numId2numFmts") =>
          (ret'.exc = "none" /\ io' = << >> /\ ret'.val = The(numId2NumFmts))]_vars
  /\ [][\A i \in Parts :
          /\ (FileAt(i).path # None /\ CachedCall("path", i)) =>
               (ret'.exc = "none" /\ io' = << >> /\ ret'.val = The(FileAt(i).path))
          /\ (FileAt(i).rels_path # None /\ CachedCall("_rels_path", i)) =>
               (ret'.exc = "none" /\ io' = << >> /\ ret'.val = The(FileAt(i).rels_path))
          /\ (FileAt(i).rels # None /\ CachedCall("rels", i)) =>
               (ret'.exc = "none" /\ io' = << >> /\ ret'.val = The(FileAt(i).rels))
          /\ (FileAt(i).root_element # None /\ CachedCall("root_element", i)) =>
               (/\ ret'.exc = "none" /\ io' = << >> /\ ret'.warn = << >>
                /\ ret'.val = FileAt(i).root_element)]_vars

\* a second rels of a header returned the empty mapping cached by the first,
\* without reading the archive
C15_Witness ==
  /\ ret.op = "rels"
  /\ ret.exc = "none"
  /\ ret.val = << >>
  /\ io = << >>
  /\ FileAt(ret.arg[1]).rels = Some(<< >>)
  /\ nops = MaxOps

\* the call that just ended invoked the text extractor
Extracted(log) == \E k \in 1..Len(log) : log[k].h = "get_text"

\* C16: a content() call on a part right after a content() call on the same
\* part that returned returns the same value and does not invoke the text
\* extractor.
C16_ContentCached ==
  [][(/\ ret.op = "content" /\ ret.exc = "none"
      /\ ret'.op = "content" /\ ret'.arg = ret.arg) =>
       (ret'.exc = "none" /\ ret'.val = ret.val /\ ~Extracted(io'))]_vars

\* a message holds the value v, interpolated
Mentions(message, v) == \E k \in 1..Len(message) : message[k] = Val(v)

\* C17: the warning of an ambiguous file_of_type holds the requested type, and
\* the message of the KeyError of a file_of_type that found nothing holds the
\* requested type and the name of the archive.
C17_DiagnosticsIdentify ==
  ret.op = "file_of_type" =>
    /\ \A k \in 1..Len(ret.warn) : Mentions(ret.warn[k], ret.arg[1])
    /\ ret.exc = "KeyError" =>
         (Mentions(ret.msg, ret.arg[1]) /\ Mentions(ret.msg, DocxFilename))

\* what the Relationship Table Collector returns on the archive: the records
\* of each rels file under the name of the file
Collected == CollectRels("open", archive).val
\* the number of records of the first n rels files
RECURSIVE RecordsUpTo(_)
RecordsUpTo(n) == IF n = 0 THEN 0 ELSE RecordsUpTo(n - 1) + Len(Collected[n][2])

\* C18: the part list has as many parts as the collector returned records;
\* the parts of the k-th rels file follow those of the rels files before it,
\* in the order of its records, one part per record (with the record's Id and
\* Target and the basename of its Type), also when two records resolve to the
\* same path, and the dir of each is the directory of that rels file.
C18_OnePartPerRecord ==
  files # None =>
    /\ Len(The(files)) = RecordsUpTo(Len(Collected))
    /\ \A k \in 1..Len(Collected) :
         \A j \in 1..Len(Collected[k][2]) :
           LET f == FileAt(RecordsUpTo(k - 1) + j)
               rec == Collected[k][2][j]
           IN  /\ f.Id = rec.Id
               /\ f.Target = rec.Target
               /\ f.Type = Basename(rec.Type)
               /\ f.dir = Dirname(Collected[k][1])

\* the part list of a docx whose document and header declare the same image:
\* four parts from three rels files, two of them of the same storage path
C18_Witness ==
  /\ files # None
  /\ Len(Collected) = 3
  /\ Len(The(files)) = 4
  /\ \E i, j \in Parts :
       /\ i # j
       /\ StoragePath(i) = StoragePath(j)
       /\ FileAt(i).Type = sImage
       /\ FileAt(j).Type = sImage

\* the names the stored images are kept under
ImageNames == { ImageName(i) : i \in StoredImages }
\* a stored image of that name with the greatest storage path
LastOfName(name) ==
  CHOOSE i \in StoredImages :
    /\ ImageName(i) = name
    /\ \A j \in StoredImages :
         ImageName(j) = name => ~StrLess(StoragePath(i), StoragePath(j))
PulledImages == ret.op = "pull_image_files" /\ ret.exc = "none"

BareNames == { << "a" >>, << "f", "a" >> }
\* the directory and the filename of the storage path of part i
DirOfPath(i) == PosixSplit(The(FileAt(i).path))[1]
NameOfPath(i) == PosixSplit(The(FileAt(i).path))[2]
\* the storage path of a part made from a record of target f in the rels file
\* at the rels path of part i
ChildPath(i, f) == PathOf(Dirname(The(FileAt(i).rels_path)), f)

\* C20: the rels path of a part is the directory of its storage path, then
\* /_rels/, then the filename of its storage path, then .rels
\* (word/_rels/document.xml.rels for word/document.xml); and a part declared
\* with a bare filename f in the rels file at that rels path has the storage
\* path made of the directory of the first part's storage path, /, and f.
C20_RelsPathConsistent ==
  \A i \in Parts :
    FileAt(i).rels_path # None =>
      /\ The(FileAt(i).rels_path)
           = DirOfPath(i) \o << "/" >> \o sRels \o << "/" >> \o NameOfPath(i) \o sDotRels
      /\ The(FileAt(i).path) = NameDocument => The(FileAt(i).rels_path) = NameDocRels
      /\ \A f \in BareNames : ChildPath(i, f) = DirOfPath(i) \o << "/" >> \o f

\* a relative path of named segments: not empty, no "/" at either end and no
\* empty segment
WellFormed(p) ==
  /\ p # << >>
  /\ p[1] # "/"
  /\ p[Len(p)] # "/"
  /\ \A k \in 1..(Len(p) - 1) : ~(p[k] = "/" /\ p[k + 1] = "/")

\* C21: the storage path of a part whose target is a relative path (declared
\* in a rels file of the archive root or of a relative directory) is a
\* well-formed entry name: it does not begin with "/" and has no empty
\* segment, also when neither dir nor target has a directory portion.
C21_PathWellFormed ==
  \A i \in Parts :
    (/\ FileAt(i).path # None
     /\ WellFormed(FileAt(i).Target)
     /\ (FileAt(i).dir = << >> \/ WellFormed(FileAt(i).dir))) =>
      WellFormed(The(FileAt(i).path))

\* the number of entries of that name in an archive
CountOfName(arch, name) == Cardinality({ k \in 1..Len(arch) : arch[k].filename = name })

\* C22: after a save (on a package whose handle had not been closed before)
\* no two entries of the destination have the same name, and every name of a
\* source entry is the name of exactly one entry of the destination, also
\* when two header records resolve to one storage path and when the storage
\* path of a header names no source entry.
C22_EachNameOnce ==
  SavedFromUsable =>
    /\ \A k \in 1..Len(dest.entries) :
         CountOfName(dest.entries, dest.entries[k].filename) = 1
    /\ \A k \in 1..Len(archive) :
         CountOfName(dest.entries, archive[k].filename) = 1

\* the first child of that tag, if any
FirstChild(tag) ==
  IF \E k \in 1..Len(checkBox) : checkBox[k].tag = tag
  THEN << checkBox[CHOOSE k \in 1..Len(checkBox) :
                     /\ checkBox[k].tag = tag
                     /\ \A l \in 1..(k - 1) : checkBox[l].tag # tag] >>
  ELSE << >>
\* the text the documentation gives for a w:val
BoxOfWval(wval) == IF wval = Some("1") THEN CrossedBox ELSE UncheckedBox

\* C23: get_checkBox_entry returns a string for every checkBox. With a
\* w:checked child the string is the unchecked box when the child has no
\* w:val or the w:val 0 and the crossed box when it has the w:val 1; without a
\* w:checked child and with a w:default child that has the w:val 0 or 1 it is
\* the box of that w:val; with neither child it is the failure string.
C23_CheckBoxEntry ==
  ret.op = "get_checkBox_entry" =>
    /\ ret.exc = "none"
    /\ Len(ret.val) = 1
    /\ LET checked == FirstChild("checked")
           default == FirstChild("default")
       IN  /\ (checked # << >> /\ checked[1].wval \in { None, Some("0"), Some("1") }) =>
                ret.val[1] = BoxOfWval(checked[1].wval)
           /\ (checked = << >> /\ default # << >>
               /\ default[1].wval \in { Some("0"), Some("1") }) =>
                ret.val[1] = BoxOfWval(default[1].wval)
           /\ (checked = << >> /\ default = << >>) => ret.val[1] = CheckBoxFailed

====
